---- MODULE Spec2Model ----
(***************************************************************************)
(* Model of the ads1x15_comparison tool: the signal metrics of             *)
(* signal_utils.py, the signal-name parser and reference-waveform          *)
(* synthesizer of plot_comparison.py, and the batch driver of              *)
(* generate_all.py.                                                        *)
(*                                                                         *)
(* Number representation.  numpy's float64 values are modelled by exact    *)
(* rationals wherever the code only adds, subtracts, multiplies or         *)
(* divides: an array is a record [num, den] (one common denominator), a    *)
(* scalar a record [nan, num, den].  A square root is the integer square   *)
(* root of its argument (fixed point, rounded down), a sine is read from   *)
(* a 24-step table in units of 1/1200.  Voltages are counted in ticks of   *)
(* 0.1 mV (in millivolts for vrms_to_current).  Rounding of float64 (about  *)
(* 1e-16 relative) is not modelled.                                        *)
(***************************************************************************)
EXTENDS Integers, Sequences, FiniteSets

\* ---------------------------------------------------------------- bounds
MaxLen == 3        \* longest sample sequence handed to the metrics
MaxAmp == 2        \* sample values are 50 * (-MaxAmp .. MaxAmp) ticks
MaxFreq == 4       \* frequencies in signal names are 0 .. MaxFreq Hz
MaxDur == 2        \* durations handed to generate_reference are 1 .. MaxDur
MaxN == 12         \* sample counts are the divisors of a turn's steps up to MaxN
MaxNames == 3      \* signal names in logs/ are 1 .. MaxNames, in sorted order

VARIABLES
    orig,       \* metrics: the sample sequence as the caller built it
    signal,     \* metrics: the caller's array object as it is now
    pct,        \* metrics: the percentile argument, in tenths of a percent
    res,        \* metrics: what each metric function gave back, by name
    cvrms,      \* current: the secondary RMS voltage handed over, in mV
    ciprim,     \* current: the CT's nominal primary current, in amperes
    cfs,        \* current: the full-scale voltage of the caller's CT, in mV
    cres,       \* current: what vrms_to_current gave back
    gname,      \* reference: the signal name, as tokens (<<>>: none)
    gparams,    \* reference: the waveform descriptor
    dur,        \* reference: the duration argument
    npts,       \* reference: the n_points argument
    out,        \* reference: what generate_reference gave back
    ref,        \* reference: the metrics of the wave, by name
    gpc,        \* reference: name -> descriptor -> generated -> measured | failed
    files,      \* batch: the files of logs/, each a signal name and a suffix
    argsOk,     \* batch: whether the command line carries --i_primary
    pairs,      \* batch: the sorted names find_signal_pairs returned
    idx,        \* batch: the loop's position in pairs, from 1
    failed,     \* batch: the names whose run failed, in order
    ran,        \* batch: the names a subprocess was started for, in order
    rcs,        \* batch: the return code of each subprocess, in order
    exitStatus, \* batch: the process's exit status (-1: still running)
    bpc         \* batch: start -> loop -> exit

metVars == <<orig, signal, pct, res>>
curVars == <<cvrms, ciprim, cfs, cres>>
genVars == <<gname, gparams, dur, npts, out, ref, gpc>>
batVars == <<files, argsOk, pairs, idx, failed, ran, rcs, exitStatus, bpc>>
vars == <<orig, signal, pct, res, cvrms, ciprim, cfs, cres,
          gname, gparams, dur, npts, out, ref, gpc,
          files, argsOk, pairs, idx, failed, ran, rcs, exitStatus, bpc>>

\* ------------------------------------------------------------ arithmetic
Abs(x) == IF x < 0 THEN -x ELSE x

Sign(x) == IF x > 0 THEN 1 ELSE IF x < 0 THEN -1 ELSE 0

\* a / b rounded to the nearest integer, halves away from zero (b > 0)
RoundDiv(a, b) == Sign(a) * ((2 * Abs(a) + b) \div (2 * b))

RECURSIVE SumSeq(_)
SumSeq(s) == IF s = <<>> THEN 0 ELSE Head(s) + SumSeq(Tail(s))

RECURSIVE SqrtIter(_, _)
SqrtIter(x, r) ==
    LET nxt == (r + x \div r) \div 2
    IN  IF nxt >= r THEN r ELSE SqrtIter(x, nxt)

\* np.sqrt on a non-negative integer: the integer square root
ISqrt(x) == IF x <= 0 THEN 0 ELSE SqrtIter(x, x)

RECURSIVE Insert(_, _)
Insert(x, s) ==
    IF s = <<>> THEN <<x>>
    ELSE IF x <= Head(s) THEN <<x>> \o s
    ELSE <<Head(s)>> \o Insert(x, Tail(s))

RECURSIVE NpSort(_)
NpSort(s) == IF s = <<>> THEN <<>> ELSE Insert(Head(s), NpSort(Tail(s)))

\* ------------------------------------------------- arrays, floats, calls
Arr(nums, den) == [num |-> nums, den |-> den]

Flt(num, den) == [nan |-> FALSE, num |-> num, den |-> den]

NaN == [nan |-> TRUE, num |-> 0, den |-> 1]

Ret(v) == [status |-> "return", val |-> v, exc |-> "none"]

Raise(e) == [status |-> "raise", val |-> NaN, exc |-> e]

NotCalled == [status |-> "none", val |-> NaN, exc |-> "none"]

\* ------------------------------------------------- signal_utils.py
\* np.mean: the sum over the length; NaN (and a RuntimeWarning) when empty
NpMean(a) ==
    IF Len(a.num) = 0 THEN NaN
    ELSE Flt(SumSeq(a.num), Len(a.num) * a.den)

\* signal - mean, element by element, as a new array over the denominator
\* n * den; the empty array minus NaN is the empty array
ArrMinusScalar(a, m) ==
    IF m.nan THEN Arr([i \in 1..Len(a.num) |-> 0], a.den)
    ELSE Arr([i \in 1..Len(a.num) |-> Len(a.num) * a.num[i] - m.num], m.den)

\* remove_dc_bias: ret is the array handed back, arg the state of the
\* caller's array once the call is over
remove_dc_bias(sig) ==
    [arg |-> sig, ret |-> ArrMinusScalar(sig, NpMean(sig))]

\* np.sqrt(np.mean(ac ** 2)): sqrt(sum(num^2) / n) / den
RmsOf(ac) ==
    IF Len(ac.num) = 0 THEN NaN
    ELSE Flt(ISqrt(SumSeq([i \in 1..Len(ac.num) |-> ac.num[i] * ac.num[i]])
                   \div Len(ac.num)), ac.den)

calc_rms_no_bias(sig) == Ret(RmsOf(sig))

calc_rms(sig) == Ret(RmsOf(remove_dc_bias(sig).ret))

\* np.percentile(a, p), method "linear": the value at position (n-1)*p/100
\* of the sorted array, interpolated between its two neighbours.  p10 is p
\* in tenths of a percent; the result is over the denominator 1000 * den.
\* On an empty array the library either returns NaN or raises IndexError,
\* by its version: onEmpty names which.
NpPercentile(a, p10, onEmpty) ==
    IF Len(a.num) = 0
    THEN IF onEmpty = "nan" THEN Ret(NaN) ELSE Raise("IndexError")
    ELSE LET n == Len(a.num)
             s == NpSort(a.num)
             pos == (n - 1) * p10
             lo == pos \div 1000
             hi == IF lo + 1 > n - 1 THEN n - 1 ELSE lo + 1
             rem == pos % 1000
         IN  Ret(Flt(1000 * s[lo + 1] + rem * (s[hi + 1] - s[lo + 1]),
                     1000 * a.den))

ArrAbs(a) == Arr([i \in 1..Len(a.num) |-> Abs(a.num[i])], a.den)

calc_peak(sig, p10, onEmpty) ==
    NpPercentile(ArrAbs(remove_dc_bias(sig).ret), p10, onEmpty)

calc_peak_to_peak_twice_peak(sig, p10, onEmpty) ==
    LET pk == calc_peak(sig, p10, onEmpty)
    IN  IF pk.status = "raise" \/ pk.val.nan THEN pk
        ELSE Ret(Flt(2 * pk.val.num, pk.val.den))

calc_peak_to_peak(sig, p10, onEmpty) ==
    LET ac == remove_dc_bias(sig).ret
        high == NpPercentile(ac, p10, onEmpty)
        low == NpPercentile(ac, 1000 - p10, onEmpty)
    IN  IF high.status = "raise" THEN high
        ELSE IF high.val.nan \/ low.val.nan THEN Ret(NaN)
        ELSE Ret(Flt(high.val.num - low.val.num, high.val.den))

\* CT_FS_VOLTAGE = 0.333 V, in millivolts
CT_FS_VOLTAGE == 333

\* a CT that saturates at its nominal primary current
vrms_to_current_clamped(vrms, i_primary) ==
    IF vrms > CT_FS_VOLTAGE THEN Ret(Flt(i_primary, 1))
    ELSE Ret(Flt(vrms * i_primary, CT_FS_VOLTAGE))

vrms_to_current(vrms, i_primary) ==
    Ret(Flt(vrms * i_primary, CT_FS_VOLTAGE))

\* ------------------------------------------------- plot_comparison.py
\* A signal name is the sequence of the tokens its underscores and unit
\* suffixes separate: a word, or a number written in decimal digits with an
\* optional fraction ("33.9" is d = <<3, 3>>, fr = <<9>>).
Word(w) == [w |-> w, d |-> <<>>, fr |-> <<>>]

Num(d, fr) == [w |-> "#", d |-> d, fr |-> fr]

RECURSIVE DigitsOf(_)
DigitsOf(n) == IF n < 10 THEN <<n>> ELSE DigitsOf(n \div 10) \o <<n % 10>>

\* int("150"): the decimal value of a digit string
RECURSIVE PyInt(_)
PyInt(d) == IF d = <<>> THEN 0 ELSE 10 * PyInt(SubSeq(d, 1, Len(d) - 1)) + d[Len(d)]

\* float(mV) * 1e-3, in ticks of 0.1 mV (at most one fractional digit)
MilliVoltsToTicks(tok) ==
    10 * PyInt(tok.d) + (IF tok.fr = <<>> THEN 0 ELSE tok.fr[1])

\* str.lower() and re.IGNORECASE on the words a name is made of
Lower(w) ==
    CASE w = "SINE" -> "sine"
      [] w = "Dimmer" -> "dimmer"
      [] OTHER -> w

IsWord(tok, w) == Lower(tok.w) = Lower(w)

\* (\d+)
IsDigits(tok) == tok.w = "#" /\ tok.d # <<>> /\ tok.fr = <<>>

\* ([\d.]+)
IsDigitsOrDots(tok) == tok.w = "#"

\* re.match: the pattern's tokens against the head of the name
Matches(nm, pat) ==
    /\ Len(nm) >= Len(pat)
    /\ \A i \in 1..Len(pat) :
          CASE pat[i] = "d" -> IsDigits(nm[i])
            [] pat[i] = "f" -> IsDigitsOrDots(nm[i])
            [] OTHER -> IsWord(nm[i], pat[i])

DimmerPattern == <<"dimmer", "d", "pct", "d", "hz", "f", "mVrms">>

ModPattern == <<"sine", "d", "hz", "mod", "d", "hz", "f", "mVrms">>

PlainPattern(fam) == <<fam, "d", "hz", "f", "mVrms">>

PlainFamilies == {"sine", "square", "triangle"}

parse_signal_name(nm) ==
    IF Matches(nm, DimmerPattern)
    THEN Ret([type |-> "dimmer", duty_pct |-> PyInt(nm[2].d),
              freq_hz |-> PyInt(nm[4].d), vrms_v |-> MilliVoltsToTicks(nm[6])])
    ELSE IF Matches(nm, ModPattern)
    THEN Ret([type |-> "sine_mod", freq_hz |-> PyInt(nm[2].d),
              mod_freq_hz |-> PyInt(nm[5].d),
              vrms_v |-> MilliVoltsToTicks(nm[7])])
    ELSE IF \E fam \in PlainFamilies : Matches(nm, PlainPattern(fam))
    THEN Ret([type |-> Lower(nm[1].w), freq_hz |-> PyInt(nm[2].d),
              vrms_v |-> MilliVoltsToTicks(nm[4])])
    ELSE Raise("ValueError")

\* sin at 0, 15, ..., 90 degrees, in units of 1/1200
QuarterSin == <<0, 311, 600, 849, 1039, 1159, 1200>>

\* the fixed-point value of 1.0
One == QuarterSin[Len(QuarterSin)]

\* the steps of a full turn
Steps == 4 * (Len(QuarterSin) - 1)

\* sin of j steps of a turn, j in 0 .. Steps-1
SinStep(j) ==
    LET q == Steps \div 4
    IN  IF j <= q THEN QuarterSin[j + 1]
        ELSE IF j <= 2 * q THEN QuarterSin[2 * q - j + 1]
        ELSE IF j <= 3 * q THEN -QuarterSin[j - 2 * q + 1]
        ELSE -QuarterSin[4 * q - j + 1]

\* np.linspace(0, duration, n_points, endpoint=False): t[k] = (k-1)*duration/n
NpLinspace(duration, n_points) ==
    Arr([k \in 1..n_points |-> (k - 1) * duration], n_points)

\* np.sin(2 * np.pi * f * t)[k]
SinAt(f, t, k) == SinStep((f * t.num[k] * (Steps \div t.den)) % Steps)

\* np.cos(2 * np.pi * f * t)[k]
CosAt(f, t, k) ==
    SinStep((f * t.num[k] * (Steps \div t.den) + (Steps \div 4)) % Steps)

\* 4 * np.abs((f * t) % 1.0 - 0.5) - 1, at sample k
TriangleAt(f, t, k) ==
    Abs(((4 * One) \div t.den) * ((f * t.num[k]) % t.den) - 2 * One) - One

\* the firing angle taken for the conducting part of the half-cycle
FiringAngleInverted(duty_pct) == duty_pct

\* np.pi * (1 - duty_pct / 100.0), in hundredths of pi
FiringAngle(duty_pct) == 100 - duty_pct

\* (2 * np.pi * f * t) % np.pi >= firing_angle, at sample k
Conducting(f, t, k, duty_pct) ==
    100 * ((2 * f * t.num[k]) % t.den) >= t.den * FiringAngle(duty_pct)

Families == {"sine", "square", "triangle", "dimmer", "sine_mod"}

Has(params, key) == key \in DOMAIN params

Shape(raw) == [status |-> "return", exc |-> "none", raw |-> raw]

ShapeError(e) == [status |-> "raise", exc |-> e, raw |-> <<>>]

\* a dispatch that takes every other family tag for a sine
UnscaledWaveDefaultSine(params, t) ==
    LET f == params["freq_hz"]
        K == 1..Len(t.num)
    IN  IF params["type"] = "square"
        THEN Shape([k \in K |-> One * Sign(SinAt(f, t, k))])
        ELSE Shape([k \in K |-> SinAt(f, t, k)])

\* lines 74-101: the unscaled wave of the family, in units of 1/One
UnscaledWave(params, t) ==
    LET f == params["freq_hz"]
        wtype == params["type"]
        K == 1..Len(t.num)
    IN  CASE wtype = "sine" -> Shape([k \in K |-> SinAt(f, t, k)])
          [] wtype = "square" -> Shape([k \in K |-> One * Sign(SinAt(f, t, k))])
          [] wtype = "triangle" -> Shape([k \in K |-> TriangleAt(f, t, k)])
          [] wtype = "dimmer" ->
                IF ~Has(params, "duty_pct") THEN ShapeError("KeyError")
                ELSE Shape([k \in K |->
                        IF Conducting(f, t, k, params["duty_pct"])
                        THEN SinAt(f, t, k) ELSE 0])
          [] wtype = "sine_mod" ->
                IF ~Has(params, "mod_freq_hz") THEN ShapeError("KeyError")
                ELSE Shape([k \in K |->
                        RoundDiv(SinAt(f, t, k)
                                 * (One + CosAt(params["mod_freq_hz"], t, k)),
                                 One)])
          [] OTHER -> ShapeError("ValueError")

\* np.sqrt(np.mean(wave ** 2)), in units of 1/One
RawRms(raw) ==
    IF raw = <<>> THEN 0
    ELSE ISqrt(SumSeq([k \in 1..Len(raw) |-> raw[k] * raw[k]]) \div Len(raw))

Scaled(w) == [status |-> "return", exc |-> "none", wave |-> w]

\* a scaling that refuses a wave of zero RMS
ScaleToRmsStrict(raw, vrms) ==
    IF RawRms(raw) > 0
    THEN Scaled(Arr([k \in 1..Len(raw) |-> RoundDiv(raw[k] * vrms, RawRms(raw))], 1))
    ELSE [status |-> "raise", exc |-> "ZeroDivisionError", wave |-> Arr(<<>>, 1)]

\* lines 104-106: wave * (vrms / rms_raw) when rms_raw > 0, in ticks; else the
\* wave as it is (1.0 is 10000 ticks)
ScaleToRms(raw, vrms) ==
    IF RawRms(raw) > 0
    THEN Scaled(Arr([k \in 1..Len(raw) |-> RoundDiv(raw[k] * vrms, RawRms(raw))], 1))
    ELSE Scaled(Arr([k \in 1..Len(raw) |-> 10000 * raw[k]], One))

GenOut(status, exc, arrays, t, raw, wave) ==
    [status |-> status, exc |-> exc, arrays |-> arrays, t |-> t, raw |-> raw,
     wave |-> wave]

GenFail(exc, arrays) ==
    GenOut("raise", exc, arrays, Arr(<<>>, 1), <<>>, Arr(<<>>, 1))

NoOut == GenOut("none", "none", {}, Arr(<<>>, 1), <<>>, Arr(<<>>, 1))

\* generate_reference: arrays names the arrays built by the time the call
\* ends, t and wave are the pair handed back
generate_reference(params, duration, n_points) ==
    LET t == NpLinspace(duration, n_points)
    IN  IF ~Has(params, "freq_hz") \/ ~Has(params, "vrms_v") \/ ~Has(params, "type")
        THEN GenFail("KeyError", {"t"})
        ELSE LET shape == UnscaledWave(params, t)
             IN  IF shape.status = "raise" THEN GenFail(shape.exc, {"t"})
                 ELSE LET sc == ScaleToRms(shape.raw, params["vrms_v"])
                      IN  IF sc.status = "raise"
                          THEN GenFail(sc.exc, {"t", "wave"})
                          ELSE GenOut("return", "none", {"t", "wave"}, t,
                                      shape.raw, sc.wave)

\* ------------------------------------------------- generate_all.py
File(n, suffix) == [name |-> n, suffix |-> suffix]

Suffixes == {"ads1015.log", "ads1115.log", "ADS1015.LOG"}

\* re.match(r"(.+)_ads1[01]15\.log$", f, re.IGNORECASE)
MatchesLogPattern(f) == f.suffix \in {"ads1015.log", "ads1115.log", "ADS1015.LOG"}

\* os.path.isfile(os.path.join(LOGS_DIR, f"{n}_<suffix>"))
IsFile(listing, n, suffix) == File(n, suffix) \in listing

\* sorted(...) of a set of names
RECURSIVE Sorted(_)
Sorted(S) ==
    IF S = {} THEN <<>>
    ELSE LET m == CHOOSE x \in S : \A y \in S : x <= y
         IN  <<m>> \o Sorted(S \ {m})

find_signal_pairs(listing) ==
    LET names == {f.name : f \in {g \in listing : MatchesLogPattern(g)}}
    IN  Sorted({n \in names : /\ IsFile(listing, n, "ads1015.log")
                              /\ IsFile(listing, n, "ads1115.log")})

\* a run counted as failed only when its return code is positive
FailedAfterPositiveOnly(fl, name, rc) ==
    IF rc > 0 THEN Append(fl, name) ELSE fl

\* lines 61-66: the failed list after one subprocess has returned rc
FailedAfter(fl, name, rc) ==
    IF rc = 0 THEN fl ELSE Append(fl, name)

\* ------------------------------------------------- metrics: the caller
SampleVals == {50 * a : a \in -MaxAmp..MaxAmp}

Signals == UNION {[1..n -> SampleVals] : n \in 0..MaxLen}

Percentiles == {750, 995, 1000}

PercentileOnEmpty == {"nan", "IndexError"}

MetricNames == {"remove_dc_bias", "calc_rms", "calc_peak", "calc_peak_to_peak"}

RefMetricNames == {"calc_rms", "calc_peak", "calc_peak_to_peak"}

IdleMetrics ==
    /\ orig = Arr(<<>>, 1)
    /\ signal = orig
    /\ pct = 995
    /\ res = [f \in MetricNames |-> NotCalled]

IdleCurrent ==
    /\ cvrms = 0
    /\ ciprim = 0
    /\ cfs = CT_FS_VOLTAGE
    /\ cres = NotCalled

IdleGen ==
    /\ gname = <<>>
    /\ gparams = <<>>
    /\ dur = 1
    /\ npts = 1
    /\ out = NoOut
    /\ ref = [f \in RefMetricNames |-> NotCalled]
    /\ gpc = "idle"

IdleBatch ==
    /\ files = {}
    /\ argsOk = TRUE
    /\ pairs = <<>>
    /\ idx = 1
    /\ failed = <<>>
    /\ ran = <<>>
    /\ rcs = <<>>
    /\ exitStatus = -1
    /\ bpc = "idle"

InitMetrics ==
    /\ IdleCurrent
    /\ IdleGen
    /\ IdleBatch
    /\ orig \in {Arr(s, 1) : s \in Signals}
    /\ signal = orig
    /\ pct \in Percentiles
    /\ res = [f \in MetricNames |-> NotCalled]

CallRemoveDcBias ==
    /\ res["remove_dc_bias"].status = "none"
    /\ LET r == remove_dc_bias(signal)
       IN  /\ signal' = r.arg
           /\ res' = [res EXCEPT !["remove_dc_bias"] =
                        [status |-> "return", val |-> r.ret, exc |-> "none"]]
    /\ UNCHANGED <<orig, pct, curVars, genVars, batVars>>

CallCalcRms ==
    /\ res["calc_rms"].status = "none"
    /\ res' = [res EXCEPT !["calc_rms"] = calc_rms(signal)]
    /\ UNCHANGED <<orig, signal, pct, curVars, genVars, batVars>>

CallCalcPeak ==
    /\ res["calc_peak"].status = "none"
    /\ \E e \in PercentileOnEmpty :
          res' = [res EXCEPT !["calc_peak"] = calc_peak(signal, pct, e)]
    /\ UNCHANGED <<orig, signal, pct, curVars, genVars, batVars>>

CallCalcPeakToPeak ==
    /\ res["calc_peak_to_peak"].status = "none"
    /\ \E e \in PercentileOnEmpty :
          res' = [res EXCEPT !["calc_peak_to_peak"] =
                    calc_peak_to_peak(signal, pct, e)]
    /\ UNCHANGED <<orig, signal, pct, curVars, genVars, batVars>>

NextMetrics ==
    \/ CallRemoveDcBias
    \/ CallCalcRms
    \/ CallCalcPeak
    \/ CallCalcPeakToPeak

SpecMetrics == InitMetrics /\ [][NextMetrics]_vars

\* ------------------------------------------------- current: the caller
\* The caller has a CT whose full-scale voltage is cfs.  It calls
\* vrms_to_current(vrms, i_primary) as build_metrics_table does, or hands
\* its full-scale voltage over as a third argument, which the two-parameter
\* function refuses with a TypeError.
VrmsInputs == {0, 100, 150, 333, 500, 666}

PrimaryCurrents == {5, 30, 50, 100}

FullScales == {CT_FS_VOLTAGE, 1000}

InitCurrent ==
    /\ IdleMetrics
    /\ IdleGen
    /\ IdleBatch
    /\ cvrms \in VrmsInputs
    /\ ciprim \in PrimaryCurrents
    /\ cfs \in FullScales
    /\ cres = NotCalled

CallVrmsToCurrent ==
    /\ cres.status = "none"
    /\ cres' = vrms_to_current(cvrms, ciprim)
    /\ UNCHANGED <<cvrms, ciprim, cfs, metVars, genVars, batVars>>

CallVrmsToCurrentWithFullScale ==
    /\ cres.status = "none"
    /\ cres' = Raise("TypeError")
    /\ UNCHANGED <<cvrms, ciprim, cfs, metVars, genVars, batVars>>

NextCurrent ==
    \/ CallVrmsToCurrent
    \/ CallVrmsToCurrentWithFullScale

SpecCurrent == InitCurrent /\ [][NextCurrent]_vars

\* ------------------------------------------------- reference: the caller
VrmsTokens == {Num(<<1, 0>>, <<2>>), Num(<<3, 3>>, <<9>>)}

DutyValues == {0, 50, 100, 150}

HeadWords == {"sine", "square", "triangle", "SINE", "sawtooth"}

DimmerName(duty, f, v) ==
    <<Word("dimmer"), Num(DigitsOf(duty), <<>>), Word("pct"),
      Num(DigitsOf(f), <<>>), Word("hz"), v, Word("mVrms")>>

ModName(f, fm, v) ==
    <<Word("sine"), Num(DigitsOf(f), <<>>), Word("hz"), Word("mod"),
      Num(DigitsOf(fm), <<>>), Word("hz"), v, Word("mVrms")>>

PlainName(w, f, v) ==
    <<Word(w), Num(DigitsOf(f), <<>>), Word("hz"), v, Word("mVrms")>>

SignalNames ==
    {DimmerName(d, f, v) : d \in DutyValues, f \in 0..MaxFreq, v \in VrmsTokens}
    \cup {ModName(f, fm, v) : f \in 0..MaxFreq, fm \in 0..MaxFreq, v \in VrmsTokens}
    \cup {PlainName(w, f, v) : w \in HeadWords, f \in 0..MaxFreq, v \in VrmsTokens}

\* descriptors a caller hands to generate_reference without a name
DirectDescriptors ==
    { [type |-> "sine", freq_hz |-> 1, vrms_v |-> 102],
      [type |-> "sawtooth", freq_hz |-> 1, vrms_v |-> 102],
      [type |-> "dimmer", freq_hz |-> 1, vrms_v |-> 102],
      [type |-> "sine_mod", freq_hz |-> 1, vrms_v |-> 102],
      [type |-> "sine", vrms_v |-> 102],
      [type |-> "sine", freq_hz |-> 1],
      [freq_hz |-> 1, vrms_v |-> 102] }

GridSizes == {n \in 1..MaxN : Steps % n = 0}

InitGen ==
    /\ IdleMetrics
    /\ IdleCurrent
    /\ IdleBatch
    /\ dur \in 1..MaxDur
    /\ npts \in GridSizes
    /\ out = NoOut
    /\ ref = [f \in RefMetricNames |-> NotCalled]
    /\ \/ gname \in SignalNames /\ gparams = <<>> /\ gpc = "name"
       \/ gname = <<>> /\ gparams \in DirectDescriptors /\ gpc = "descriptor"

\* plot_comparison.main, line 207
ParseSignalName ==
    /\ gpc = "name"
    /\ LET r == parse_signal_name(gname)
       IN  IF r.status = "return"
           THEN gparams' = r.val /\ gpc' = "descriptor"
           ELSE gparams' = gparams /\ gpc' = "failed"
    /\ UNCHANGED <<gname, dur, npts, out, ref, metVars, curVars, batVars>>

\* plot_comparison.main, line 224
GenerateReference ==
    /\ gpc = "descriptor"
    /\ out' = generate_reference(gparams, dur, npts)
    /\ gpc' = IF out'.status = "return" THEN "generated" ELSE "failed"
    /\ UNCHANGED <<gname, gparams, dur, npts, ref, metVars, curVars, batVars>>

\* build_metrics_table, lines 116-118
MeasureReference ==
    /\ gpc = "generated"
    /\ ref' = [f \in RefMetricNames |->
                CASE f = "calc_rms" -> calc_rms(out.wave)
                  [] f = "calc_peak" -> calc_peak(out.wave, 995, "nan")
                  [] OTHER -> calc_peak_to_peak(out.wave, 995, "nan")]
    /\ gpc' = "measured"
    /\ UNCHANGED <<gname, gparams, dur, npts, out, metVars, curVars, batVars>>

NextGen ==
    \/ ParseSignalName
    \/ GenerateReference
    \/ MeasureReference

SpecGen == InitGen /\ [][NextGen]_vars

\* ------------------------------------------------- batch: the process
ReturnCodes == {0, 1, -9}

InitBatch ==
    /\ IdleMetrics
    /\ IdleCurrent
    /\ IdleGen
    /\ files \in SUBSET {File(n, sfx) : n \in 1..MaxNames, sfx \in Suffixes}
    /\ argsOk \in BOOLEAN
    /\ pairs = <<>>
    /\ idx = 1
    /\ failed = <<>>
    /\ ran = <<>>
    /\ rcs = <<>>
    /\ exitStatus = -1
    /\ bpc = "start"

\* main, lines 29-47: argparse leaves with status 2 without --i_primary;
\* no pair found leaves with status 1
Discover ==
    /\ bpc = "start"
    /\ IF ~argsOk
       THEN /\ exitStatus' = 2 /\ bpc' = "exit" /\ pairs' = pairs
       ELSE /\ pairs' = find_signal_pairs(files)
            /\ IF pairs' = <<>>
               THEN exitStatus' = 1 /\ bpc' = "exit"
               ELSE exitStatus' = exitStatus /\ bpc' = "loop"
    /\ idx' = 1
    /\ failed' = <<>>
    /\ UNCHANGED <<files, argsOk, ran, rcs, metVars, curVars, genVars>>

\* main, lines 48-66: one turn of the loop, the subprocess returning rc
RunPair(rc) ==
    /\ bpc = "loop"
    /\ idx <= Len(pairs)
    /\ ran' = Append(ran, pairs[idx])
    /\ rcs' = Append(rcs, rc)
    /\ failed' = FailedAfter(failed, pairs[idx], rc)
    /\ idx' = idx + 1
    /\ UNCHANGED <<files, argsOk, pairs, exitStatus, bpc, metVars, curVars, genVars>>

\* main, lines 68-73, and the interpreter's exit with 0 past the end of main
Finish ==
    /\ bpc = "loop"
    /\ idx > Len(pairs)
    /\ exitStatus' = IF failed # <<>> THEN 1 ELSE 0
    /\ bpc' = "exit"
    /\ UNCHANGED <<files, argsOk, pairs, idx, failed, ran, rcs, metVars, curVars, genVars>>

NextBatch ==
    \/ Discover
    \/ \E rc \in ReturnCodes : RunPair(rc)
    \/ Finish

SpecBatch == InitBatch /\ [][NextBatch]_vars

\* ------------------------------------------------- properties: reference
AllZero(nums) == \A k \in 1..Len(nums) : nums[k] = 0

WellFormed(prm) ==
    /\ Has(prm, "type") /\ Has(prm, "freq_hz") /\ Has(prm, "vrms_v")
    /\ prm["type"] \in Families
    /\ prm["type"] = "dimmer" => Has(prm, "duty_pct")
    /\ prm["type"] = "sine_mod" => Has(prm, "mod_freq_hz")

Called == out.status # "none"

\* the unscaled wave of the descriptor generate_reference was called with
RawOfCall == UnscaledWave(gparams, NpLinspace(dur, npts)).raw

\* the rounding allowed to the fixed-point arithmetic: one tick and 1 %
Tolerance(r) == 1 + r \div 100

WithinTolerance(x, r) ==
    ~x.nan /\ Abs(x.num - r * x.den) <= Tolerance(r) * x.den

\* C1: for every family and every descriptor whose unscaled wave is not all
\* zero, calc_rms of the wave generate_reference returns is the target RMS
\* again, within rounding tolerance.
RoundTripLaw ==
    (gpc = "measured" /\ ~AllZero(out.raw))
        => WithinTolerance(ref["calc_rms"].val, gparams["vrms_v"])

\* The round trip does hold, within the same tolerance, for every wave whose
\* samples sum to zero: what breaks RoundTripLaw is the mean, not the rounding.
RoundTripZeroMean ==
    (gpc = "measured" /\ ~AllZero(out.raw) /\ SumSeq(out.raw) = 0)
        => WithinTolerance(ref["calc_rms"].val, gparams["vrms_v"])

\* The fixed-point raw RMS is zero only for an all-zero wave, as the float is.
RawRmsZeroOnlyIfAllZero ==
    (Called /\ WellFormed(gparams)) => (RawRms(RawOfCall) = 0 <=> AllZero(RawOfCall))

\* C3 as stated: a descriptor with an unknown family tag or without a
\* parameter its family requires makes generate_reference fail before any
\* array, time grid or waveform, is built, and no pair is returned.
MalformedFailsBeforeAnyArray ==
    (Called /\ ~WellFormed(gparams))
        => (out.status = "raise" /\ out.arrays = {})

\* C3 amended: such a descriptor makes generate_reference fail with a KeyError
\* or a ValueError; no waveform array is built and no pair is returned, but
\* the time grid has been built by then.
MalformedFailsBeforeWaveform ==
    (Called /\ ~WellFormed(gparams))
        => /\ out.status = "raise"
           /\ out.exc \in {"KeyError", "ValueError"}
           /\ out.arrays = {"t"}
           /\ out.t.num = <<>> /\ out.wave.num = <<>>
           /\ gpc = "failed"

MalformedWitness ==
    /\ Called /\ ~WellFormed(gparams)
    /\ Has(gparams, "type") /\ gparams["type"] = "sawtooth"
    /\ out.exc = "ValueError" /\ out.arrays = {"t"}

\* C6: whenever the raw RMS of the unscaled wave is zero, generate_reference
\* returns without error the unscaled all-zero wave, whatever the target RMS;
\* the dimmer family at duty_pct = 0 blanks every sample and takes this path.
DegenerateScaling ==
    (Called /\ WellFormed(gparams))
        => /\ RawRms(RawOfCall) = 0
                => /\ out.status = "return"
                   /\ Len(out.wave.num) = npts
                   /\ AllZero(out.wave.num)
                   /\ out.raw = RawOfCall /\ AllZero(out.raw)
           /\ (gparams["type"] = "dimmer" /\ gparams["duty_pct"] = 0)
                => (AllZero(RawOfCall) /\ RawRms(RawOfCall) = 0)

DegenerateWitness ==
    /\ gpc = "measured" /\ gparams["type"] = "dimmer"
    /\ gparams["duty_pct"] = 0 /\ gparams["freq_hz"] = 1 /\ npts = 12
    /\ gparams["vrms_v"] = 339
    /\ out.status = "return" /\ AllZero(out.wave.num)

\* C7: the dimmer family at duty_pct = 100 gives, sample for sample, the wave
\* of the sine family with the same frequency, target RMS, duration and
\* sample count.
DimmerFullDutyIsSine ==
    (out.status = "return" /\ gparams["type"] = "dimmer"
        /\ gparams["duty_pct"] = 100)
        => LET sine == generate_reference(
                           [type |-> "sine", freq_hz |-> gparams["freq_hz"],
                            vrms_v |-> gparams["vrms_v"]], dur, npts)
           IN  /\ sine.status = "return"
               /\ out.wave = sine.wave
               /\ out.t = sine.t

DimmerFullDutyWitness ==
    /\ out.status = "return" /\ gparams["type"] = "dimmer"
    /\ gparams["duty_pct"] = 100 /\ gparams["freq_hz"] = 1 /\ npts = 12
    /\ ~AllZero(out.wave.num)

\* C9: every dimmer descriptor parse_signal_name yields has its duty_pct in
\* 0 .. 100, so the firing angle lies in [0, pi].
DimmerDutyInRange ==
    (gname # <<>> /\ gpc # "name" /\ Has(gparams, "type")
        /\ gparams["type"] = "dimmer")
        => /\ gparams["duty_pct"] \in 0..100
           /\ FiringAngle(gparams["duty_pct"]) \in 0..100

\* ------------------------------------------------- properties: metrics
Returned(f) == res[f].status = "return"

\* n * s[i] - sum(s): the bias-removed samples over the denominator n
AcNums(nums) ==
    [i \in 1..Len(nums) |-> Len(nums) * nums[i] - SumSeq(nums)]

\* the k-th smallest element (k from 0), by counting
OrderStat(nums, k) ==
    CHOOSE v \in {nums[i] : i \in 1..Len(nums)} :
        /\ Cardinality({i \in 1..Len(nums) : nums[i] < v}) <= k
        /\ Cardinality({i \in 1..Len(nums) : nums[i] <= v}) > k

\* 1000 times the percentile p10 / 10 of nums, linear between order statistics
LinearPercentile(nums, p10) ==
    LET pos == (Len(nums) - 1) * p10
        lo == pos \div 1000
        hi == IF lo + 1 > Len(nums) - 1 THEN Len(nums) - 1 ELSE lo + 1
    IN  1000 * OrderStat(nums, lo)
          + (pos % 1000) * (OrderStat(nums, hi) - OrderStat(nums, lo))

MaxOf(nums) == CHOOSE v \in {nums[i] : i \in 1..Len(nums)} :
                   \A i \in 1..Len(nums) : nums[i] <= v

MinOf(nums) == CHOOSE v \in {nums[i] : i \in 1..Len(nums)} :
                   \A i \in 1..Len(nums) : nums[i] >= v

\* C2: a metric function called with an empty sample sequence ends in an
\* error; it returns nothing, not even a NaN.
EmptyInputIsTerminalError ==
    \A f \in MetricNames :
        (Len(orig.num) = 0 /\ res[f].status # "none") => res[f].status = "raise"

\* C4: calc_peak_to_peak is percentile(ac, p) - percentile(ac, 100-p) on the
\* signed bias-removed samples, calc_peak the p-th percentile of |ac|; the
\* span never exceeds twice the peak and, at p = 100, is less than twice the
\* peak whenever the largest and the smallest of ac differ in magnitude.
PeakToPeakIsSignedSpan ==
    (Len(orig.num) > 0 /\ Returned("calc_peak") /\ Returned("calc_peak_to_peak"))
        => LET ac == AcNums(orig.num)
               absac == [i \in 1..Len(ac) |-> Abs(ac[i])]
               pk == res["calc_peak"].val
               pp == res["calc_peak_to_peak"].val
           IN  /\ ~pk.nan /\ ~pp.nan
               /\ pk.den = 1000 * Len(ac) /\ pp.den = 1000 * Len(ac)
               /\ pp.num = LinearPercentile(ac, pct) - LinearPercentile(ac, 1000 - pct)
               /\ pk.num = LinearPercentile(absac, pct)
               /\ pp.num <= 2 * pk.num
               /\ (pct = 1000 /\ MaxOf(ac) # -MinOf(ac)) => pp.num < 2 * pk.num

PeakToPeakDiffersWitness ==
    /\ Returned("calc_peak") /\ Returned("calc_peak_to_peak")
    /\ orig.num = <<0, 0, 100>> /\ pct = 995
    /\ res["calc_peak_to_peak"].val.num # 2 * res["calc_peak"].val.num

Offsets == {-70, 30, 1000}

Shifted(a, k) == Arr([i \in 1..Len(a.num) |-> a.num[i] + k], a.den)

\* C8: calc_rms(s + k) = calc_rms(s) for every non-empty s and constant k, and
\* remove_dc_bias returns a sequence of mean zero, as long as its input,
\* and leaves its input as it was.
BiasRemovalInvariance ==
    /\ (Len(orig.num) > 0 /\ Returned("calc_rms"))
          => /\ ~res["calc_rms"].val.nan
             /\ \A k \in Offsets : calc_rms(Shifted(orig, k)) = res["calc_rms"]
    /\ (Len(orig.num) > 0 /\ Returned("remove_dc_bias"))
          => /\ SumSeq(res["remove_dc_bias"].val.num) = 0
             /\ Len(res["remove_dc_bias"].val.num) = Len(orig.num)
             /\ signal = orig

BiasRemovalWitness ==
    /\ orig.num = <<100, -50, 50>>
    /\ Returned("calc_rms") /\ Returned("remove_dc_bias")
    /\ res["calc_rms"].val.num > 0
    /\ res["remove_dc_bias"].val.num # orig.num

\* ------------------------------------------------- properties: current
\* C5 as stated: vrms_to_current takes the caller's CT full-scale voltage and
\* returns vrms * i_primary / ct_fs_voltage for it.
CurrentUsesCallersFullScale ==
    cres.status # "none"
        => /\ cres.status = "return"
           /\ cres.val.num * cfs = cvrms * ciprim * cres.val.den

\* C5 amended: vrms_to_current takes vrms and i_primary only (a third argument
\* is a TypeError) and returns vrms * i_primary / CT_FS_VOLTAGE with the
\* module's constant 0.333 V, whatever the caller's CT, with no clamping: it
\* is linear in vrms and maps 0.333 V to i_primary.
CurrentUsesModuleConstant ==
    /\ cres.status \in {"none", "return", "raise"}
    /\ cres.status = "raise" => cres.exc = "TypeError"
    /\ cres.status = "return"
          => /\ ~cres.val.nan
             /\ cres.val.num * 333 = cvrms * ciprim * cres.val.den
             /\ LET twice == vrms_to_current(2 * cvrms, ciprim).val
                IN  twice.num * cres.val.den = 2 * cres.val.num * twice.den
             /\ cvrms = 333 => cres.val.num = ciprim * cres.val.den

CurrentWitness ==
    /\ cres.status = "return" /\ cvrms = 500 /\ ciprim = 100 /\ cfs = 1000
    /\ cres.val.num * cfs # cvrms * ciprim * cres.val.den

\* ------------------------------------------------- properties: batch
\* the names that have both their log files
BothLogs == {n \in 1..MaxNames : /\ File(n, "ads1015.log") \in files
                                 /\ File(n, "ads1115.log") \in files}

\* the names among the first k of pairs whose subprocess returned nonzero
RECURSIVE NonZeroRuns(_)
NonZeroRuns(k) ==
    IF k = 0 THEN <<>>
    ELSE IF rcs[k] # 0 THEN Append(NonZeroRuns(k - 1), pairs[k])
    ELSE NonZeroRuns(k - 1)

\* C10: every discovered pair is run exactly once, in sorted order, whatever
\* the subprocesses return; a failure never stops the loop; at the end failed
\* holds exactly the names whose subprocess returned nonzero, and the exit
\* status is 1 exactly when failed is non-empty or no pair was found.
BatchRunsEveryPair ==
    /\ bpc \in {"loop", "exit"} /\ argsOk
          => /\ {pairs[i] : i \in 1..Len(pairs)} = BothLogs
             /\ \A i \in 1..Len(pairs) - 1 : pairs[i] < pairs[i + 1]
             /\ ran = SubSeq(pairs, 1, Len(ran))
             /\ Len(rcs) = Len(ran)
             /\ failed = NonZeroRuns(Len(ran))
    /\ bpc = "loop" => (Len(ran) = idx - 1 /\ exitStatus = -1 /\ ENABLED NextBatch)
    /\ bpc = "exit" /\ argsOk
          => /\ ran = pairs
             /\ exitStatus \in {0, 1}
             /\ exitStatus = 1 <=> (failed # <<>> \/ pairs = <<>>)

BatchWitness ==
    /\ bpc = "exit" /\ Len(pairs) = 3
    /\ rcs = <<-9, 0, 1>> /\ failed = <<1, 3>> /\ ran = <<1, 2, 3>>
    /\ exitStatus = 1

====
